---------------------------- MODULE Spec2Model ----------------------------
(***************************************************************************)
(* Model of the configuration layer of the HTTP/S server:                  *)
(*   src/src/config/cors.rs  CorsConfig, CorsConfigBuilder, CorsConfigFile *)
(*                           and TryFrom<CorsConfigFile> for CorsConfig    *)
(*   src/src/config/file.rs  ConfigFile::from_file and ::parse_toml        *)
(*                                                                         *)
(* Representation.  Option<T> is a sequence of length at most one: None is *)
(* << >> and Some(v) is <<v>>, so Some(vec![]) = << << >> >> differs from  *)
(* None.  Vec<String> is a sequence of strings.  A Duration is the pair    *)
(* (secs, nanos) std::time::Duration stores.                               *)
(***************************************************************************)
EXTENDS Integers, Sequences, FiniteSets, TLC

VARIABLES
    builder,      \* Option<CorsConfigBuilder>: None once build(self) has consumed it
    calls,        \* history: the setter calls made on the builder, in order
    built,        \* Option<CorsConfig>: what build() returned
    preset,       \* Option<CorsConfig>: what CorsConfig::allow_all() returned
    file_config,  \* the CorsConfigFile handed to CorsConfig::try_from
    converted,    \* Option of the outcome of CorsConfig::try_from(file_config)
    operands,     \* two builders, lhs and rhs, whose configurations are compared
    ncalls,       \* setter calls made on the two builders together
    cmp,          \* Option<bool>: what lhs == rhs returned for the two built values
    fs,           \* the file system: what reading each path yields
    loaded,       \* Option of ConfigFile::from_file's argument and outcome
    content,      \* the document handed to ConfigFile::parse_toml
    parsed        \* Option of the outcome of ConfigFile::parse_toml(content)

builderVars == <<builder, calls, built, preset>>

convVars == <<file_config, converted>>

eqVars == <<operands, ncalls, cmp>>

fileVars == <<fs, loaded>>

parseVars == <<content, parsed>>

vars ==
    <<builder, calls, built, preset, file_config, converted, operands, ncalls, cmp,
      fs, loaded, content, parsed>>

None == << >>

Some(v) == <<v>>

(***************************************************************************)
(* Bounds                                                                  *)
(***************************************************************************)
MaxCalls == 3

MaxEqCalls == 2

(***************************************************************************)
(* std::time::Duration                                                     *)
(***************************************************************************)
NANOS_PER_SEC == 1000000000

Duration_from_secs(secs) == [secs |-> secs, nanos |-> 0]

(***************************************************************************)
(* An f64 number of seconds, by what Duration::from_secs_f64 reads of it:  *)
(* its class (finite, huge = finite but beyond u64::MAX seconds, inf,      *)
(* nan), its sign, and for a finite one its magnitude as whole seconds,    *)
(* whole nanoseconds and the position of what is left below one            *)
(* nanosecond (exact: nothing left; below_half, tie, above_half).          *)
(***************************************************************************)
F64(neg, secs, nanos, rem) ==
    [cls |-> "finite", neg |-> neg, secs |-> secs, nanos |-> nanos, rem |-> rem]

F64Special(cls, neg) ==
    [cls |-> cls, neg |-> neg, secs |-> 0, nanos |-> 0, rem |-> "exact"]

IsZero(x) == x.cls = "finite" /\ x.secs = 0 /\ x.nanos = 0 /\ x.rem = "exact"

Panic(msg) == [tag |-> "Panic", msg |-> msg]

Ok(v) == [tag |-> "Ok", val |-> v]

\* nanoseconds, carried into the seconds when they reach NANOS_PER_SEC
Duration_new(secs, nanos) ==
    [secs |-> secs + (nanos \div NANOS_PER_SEC), nanos |-> nanos % NANOS_PER_SEC]

\* Duration::from_secs_f64: panics on a negative, non-finite or overflowing
\* argument (-0.0 is not negative); otherwise rounds to the nearest
\* nanosecond, ties to the even one.
Duration_from_secs_f64(x) ==
    IF x.cls \in {"nan", "inf", "huge"}
    THEN Panic("can not convert float seconds to Duration: value is either too big or NaN")
    ELSE IF x.neg /\ ~IsZero(x)
    THEN Panic("can not convert float seconds to Duration: value is negative")
    ELSE LET add_ns == \/ x.rem = "above_half"
                       \/ x.rem = "tie" /\ x.nanos % 2 = 1
         IN  Ok(Duration_new(x.secs, x.nanos + (IF add_ns THEN 1 ELSE 0)))

(***************************************************************************)
(* CorsConfig and its builder (cors.rs)                                    *)
(***************************************************************************)
FieldNames ==
    {"allow_credentials", "allow_headers", "allow_methods", "allow_origin",
     "expose_headers", "max_age", "request_headers", "request_method"}

Default ==
    [allow_origin      |-> None,
     allow_methods     |-> None,
     allow_headers     |-> None,
     allow_credentials |-> FALSE,
     max_age           |-> None,
     expose_headers    |-> None,
     request_headers   |-> None,
     request_method    |-> None]

CorsConfig_builder == [config |-> Default]

allow_all_swapped ==
    [allow_origin      |-> Some("*"),
     allow_methods     |-> Some(<<"GET", "POST", "PUT", "DELETE", "PATCH", "HEAD">>),
     allow_headers     |-> Some(<<"Origin", "Content-Length", "Content-Type">>),
     allow_credentials |-> FALSE,
     max_age           |-> Some(Duration_from_secs(43200)),
     expose_headers    |-> None,
     request_headers   |-> None,
     request_method    |-> None]

allow_all ==
    [allow_origin      |-> Some("*"),
     allow_methods     |-> Some(<<"GET", "POST", "PUT", "PATCH", "DELETE", "HEAD">>),
     allow_headers     |-> Some(<<"Origin", "Content-Length", "Content-Type">>),
     allow_credentials |-> FALSE,
     max_age           |-> Some(Duration_from_secs(43200)),
     expose_headers    |-> None,
     request_headers   |-> None,
     request_method    |-> None]

allow_origin_and_reset(self, origin) ==
    [config |-> [self.config EXCEPT !.allow_origin = Some(origin),
                                    !.request_method = None]]

allow_origin(self, origin) ==
    [config |-> [self.config EXCEPT !.allow_origin = Some(origin)]]

allow_methods_keep_first(self, methods) ==
    IF self.config.allow_methods = None
    THEN [config |-> [self.config EXCEPT !.allow_methods = Some(methods)]]
    ELSE self

allow_methods(self, methods) ==
    [config |-> [self.config EXCEPT !.allow_methods = Some(methods)]]

allow_headers(self, headers) ==
    [config |-> [self.config EXCEPT !.allow_headers = Some(headers)]]

allow_credentials_toggle(self) ==
    [config |-> [self.config EXCEPT !.allow_credentials = ~self.config.allow_credentials]]

allow_credentials(self) ==
    [config |-> [self.config EXCEPT !.allow_credentials = TRUE]]

max_age(self, duration) ==
    [config |-> [self.config EXCEPT !.max_age = Some(duration)]]

expose_headers(self, headers) ==
    [config |-> [self.config EXCEPT !.expose_headers = Some(headers)]]

request_headers(self, headers) ==
    [config |-> [self.config EXCEPT !.request_headers = Some(headers)]]

request_method(self, method) ==
    [config |-> [self.config EXCEPT !.request_method = Some(method)]]

build(self) == self.config

(***************************************************************************)
(* Arguments the callers pass to the setters                               *)
(***************************************************************************)
Origins == {"*", "http://example.com"}

MethodLists ==
    {<<"GET", "POST", "PUT", "PATCH", "DELETE", "HEAD">>,
     <<"GET", "POST", "PUT", "DELETE">>}

HeaderLists ==
    {<<"Origin", "Content-Length", "Content-Type">>,
     <<"Content-Type", "Origin", "Content-Length">>}

Durations == {Duration_from_secs(43200), [secs |-> 5400, nanos |-> 500000000]}

ExposeLists == {<<"content-type", "request-id">>, << >>}

RequestHeaderLists == {<<"content-type", "content-length", "authorization">>}

RequestMethods == {"GET"}

(***************************************************************************)
(* The builder as a state machine: CorsConfig::builder(), then setter      *)
(* calls, then build(self), which consumes the builder.                    *)
(***************************************************************************)
Call(setter, arg) == [setter |-> setter, arg |-> arg]

CanCall == builder # None /\ Len(calls) < MaxCalls

Step(next, setter, arg) ==
    /\ builder' = Some(next)
    /\ calls' = Append(calls, Call(setter, arg))
    /\ UNCHANGED <<built, preset, convVars, eqVars, fileVars, parseVars>>

AllowOrigin ==
    /\ CanCall
    /\ \E origin \in Origins :
          Step(allow_origin(builder[1], origin), "allow_origin", origin)

AllowMethods ==
    /\ CanCall
    /\ \E methods \in MethodLists :
          Step(allow_methods(builder[1], methods), "allow_methods", methods)

AllowHeaders ==
    /\ CanCall
    /\ \E headers \in HeaderLists :
          Step(allow_headers(builder[1], headers), "allow_headers", headers)

AllowCredentials ==
    /\ CanCall
    /\ Step(allow_credentials(builder[1]), "allow_credentials", << >>)

MaxAge ==
    /\ CanCall
    /\ \E duration \in Durations :
          Step(max_age(builder[1], duration), "max_age", duration)

ExposeHeaders ==
    /\ CanCall
    /\ \E headers \in ExposeLists :
          Step(expose_headers(builder[1], headers), "expose_headers", headers)

RequestHeaders ==
    /\ CanCall
    /\ \E headers \in RequestHeaderLists :
          Step(request_headers(builder[1], headers), "request_headers", headers)

RequestMethod ==
    /\ CanCall
    /\ \E method \in RequestMethods :
          Step(request_method(builder[1], method), "request_method", method)

Build ==
    /\ builder # None
    /\ built' = Some(build(builder[1]))
    /\ builder' = None
    /\ UNCHANGED <<calls, preset, convVars, eqVars, fileVars, parseVars>>

AllowAll ==
    /\ preset = None
    /\ preset' = Some(allow_all)
    /\ UNCHANGED <<builder, calls, built, convVars, eqVars, fileVars, parseVars>>

NextBuilder ==
    \/ AllowOrigin
    \/ AllowMethods
    \/ AllowHeaders
    \/ AllowCredentials
    \/ MaxAge
    \/ ExposeHeaders
    \/ RequestHeaders
    \/ RequestMethod
    \/ Build
    \/ AllowAll


(***************************************************************************)
(* impl TryFrom<CorsConfigFile> for CorsConfig (cors.rs)                   *)
(***************************************************************************)
try_from(fc) ==
    LET b0 == CorsConfig_builder
        b1 == IF fc.allow_credentials THEN allow_credentials(b0) ELSE b0
        b2 == IF fc.allow_headers # None THEN allow_headers(b1, fc.allow_headers[1]) ELSE b1
        b3 == IF fc.allow_methods # None THEN allow_methods(b2, fc.allow_methods[1]) ELSE b2
        b4 == IF fc.allow_origin # None THEN allow_origin(b3, fc.allow_origin[1]) ELSE b3
        b5 == IF fc.expose_headers # None THEN expose_headers(b4, fc.expose_headers[1]) ELSE b4
        d  == Duration_from_secs_f64(fc.max_age[1])
    IN  IF fc.max_age # None /\ d.tag = "Panic"
        THEN d
        ELSE LET b6 == IF fc.max_age # None THEN max_age(b5, d.val) ELSE b5
                 b7 == IF fc.request_headers # None
                       THEN request_headers(b6, fc.request_headers[1]) ELSE b6
                 b8 == IF fc.request_method # None
                       THEN request_method(b7, fc.request_method[1]) ELSE b7
             IN  Ok(build(b8))

\* max_age values a configuration file can carry
MaxAges ==
    {F64(FALSE, 5400, 0, "exact"),                \* 5400.0
     F64(FALSE, 0, 500000000, "exact"),           \* 0.5
     F64(FALSE, 0, 100000000, "below_half"),      \* 0.1
     F64(FALSE, 0, 999999999, "above_half"),      \* 0.9999999999
     F64(FALSE, 0, 976562, "tie"),                \* 2^-10
     F64(FALSE, 0, 2929687, "tie"),               \* 3 * 2^-10
     F64(FALSE, 0, 0, "exact"),                   \* 0.0
     F64(TRUE, 0, 0, "exact"),                    \* -0.0
     F64(TRUE, 1, 0, "exact"),                    \* -1.0
     F64Special("huge", FALSE),                   \* 1e20
     F64Special("inf", FALSE),
     F64Special("nan", FALSE)}

CorsConfigFiles ==
    [allow_credentials : BOOLEAN,
     allow_headers     : {None, Some(<< >>),
                          Some(<<"content-type", "content-length", "request-id">>)},
     allow_methods     : {None, Some(<<"GET", "POST", "PUT">>)},
     allow_origin      : {None, Some("*"), Some("github.com")},
     expose_headers    : {None, Some(<<"content-type", "request-id">>)},
     max_age           : {None} \cup {Some(x) : x \in MaxAges},
     request_headers   : {None, Some(<<"content-type", "content-length", "authorization">>)},
     request_method    : {None, Some("GET")}]

TryFrom ==
    /\ converted = None
    /\ converted' = Some(try_from(file_config))
    /\ UNCHANGED <<file_config, builderVars, eqVars, fileVars, parseVars>>

(***************************************************************************)
(* #[derive(PartialEq, Eq)] on CorsConfig (cors.rs): the fields compared   *)
(* one by one in declaration order, each by its own type's equality.       *)
(***************************************************************************)
bool_eq(a, b) == a <=> b

String_eq(a, b) == a = b

Duration_eq(a, b) == a.secs = b.secs /\ a.nanos = b.nanos

Vec_eq_unordered(a, b) ==
    {a[i] : i \in 1..Len(a)} = {b[i] : i \in 1..Len(b)}

\* Vec<String>: the same length and the same element at every position
Vec_eq(a, b) ==
    /\ Len(a) = Len(b)
    /\ \A i \in 1..Len(a) : String_eq(a[i], b[i])

\* Option<T>: both None, or both Some with equal contents
OptionVec_eq(a, b) ==
    /\ Len(a) = Len(b)
    /\ Len(a) = 1 => Vec_eq(a[1], b[1])

OptionString_eq(a, b) ==
    /\ Len(a) = Len(b)
    /\ Len(a) = 1 => String_eq(a[1], b[1])

OptionDuration_eq(a, b) ==
    /\ Len(a) = Len(b)
    /\ Len(a) = 1 => Duration_eq(a[1], b[1])

CorsConfig_eq(a, b) ==
    /\ bool_eq(a.allow_credentials, b.allow_credentials)
    /\ OptionVec_eq(a.allow_headers, b.allow_headers)
    /\ OptionVec_eq(a.allow_methods, b.allow_methods)
    /\ OptionString_eq(a.allow_origin, b.allow_origin)
    /\ OptionVec_eq(a.expose_headers, b.expose_headers)
    /\ OptionDuration_eq(a.max_age, b.max_age)
    /\ OptionVec_eq(a.request_headers, b.request_headers)
    /\ OptionString_eq(a.request_method, b.request_method)

(***************************************************************************)
(* Two builders driven side by side, built and compared with ==            *)
(***************************************************************************)
Sides == {"lhs", "rhs"}

EqOrigins == {"*", "github.com"}

EqMethodLists == {<< >>, <<"GET", "POST">>, <<"POST", "GET">>}

EqHeaderLists == {<< >>, <<"Origin", "Content-Type">>, <<"Content-Type", "Origin">>}

EqDurations == {Duration_from_secs(43200), Duration_from_secs(5400)}

EqRequestMethods == {"GET", "POST"}

EqCanCall == cmp = None /\ ncalls < MaxEqCalls

EqStep(side, next) ==
    /\ operands' = [operands EXCEPT ![side] = next]
    /\ ncalls' = ncalls + 1
    /\ UNCHANGED <<cmp, builderVars, convVars, fileVars, parseVars>>

EqAllowOrigin ==
    /\ EqCanCall
    /\ \E side \in Sides, origin \in EqOrigins :
          EqStep(side, allow_origin(operands[side], origin))

EqAllowMethods ==
    /\ EqCanCall
    /\ \E side \in Sides, methods \in EqMethodLists :
          EqStep(side, allow_methods(operands[side], methods))

EqAllowHeaders ==
    /\ EqCanCall
    /\ \E side \in Sides, headers \in EqHeaderLists :
          EqStep(side, allow_headers(operands[side], headers))

EqAllowCredentials ==
    /\ EqCanCall
    /\ \E side \in Sides :
          EqStep(side, allow_credentials(operands[side]))

EqMaxAge ==
    /\ EqCanCall
    /\ \E side \in Sides, duration \in EqDurations :
          EqStep(side, max_age(operands[side], duration))

EqExposeHeaders ==
    /\ EqCanCall
    /\ \E side \in Sides, headers \in EqHeaderLists :
          EqStep(side, expose_headers(operands[side], headers))

EqRequestHeaders ==
    /\ EqCanCall
    /\ \E side \in Sides, headers \in EqHeaderLists :
          EqStep(side, request_headers(operands[side], headers))

EqRequestMethod ==
    /\ EqCanCall
    /\ \E side \in Sides, method \in EqRequestMethods :
          EqStep(side, request_method(operands[side], method))

Compare ==
    /\ cmp = None
    /\ cmp' = Some(CorsConfig_eq(build(operands.lhs), build(operands.rhs)))
    /\ UNCHANGED <<operands, ncalls, builderVars, convVars, fileVars, parseVars>>

NextEq ==
    \/ EqAllowOrigin
    \/ EqAllowMethods
    \/ EqAllowHeaders
    \/ EqAllowCredentials
    \/ EqMaxAge
    \/ EqExposeHeaders
    \/ EqRequestHeaders
    \/ EqRequestMethod
    \/ Compare

(***************************************************************************)
(* A TOML document as the deserializer sees it: malformed text, or a table *)
(* of key/value entries in document order (keys distinct).  A value is a   *)
(* string, an integer, a boolean or a table: its type t and the payload of *)
(* that type (the other payloads are unused).                              *)
(***************************************************************************)
TomlString(s) == [t |-> "string", str |-> s, int |-> 0, bool |-> FALSE, table |-> << >>]

TomlInteger(n) == [t |-> "integer", str |-> "", int |-> n, bool |-> FALSE, table |-> << >>]

TomlBoolean(b) == [t |-> "boolean", str |-> "", int |-> 0, bool |-> b, table |-> << >>]

TomlTable(entries) ==
    [t |-> "table", str |-> "", int |-> 0, bool |-> FALSE, table |-> entries]

Entry(key, value) == [key |-> key, value |-> value]

Document(entries) == [wellformed |-> TRUE, entries |-> entries]

Malformed == [wellformed |-> FALSE, entries |-> << >>]

Err(kind, msg) == [tag |-> "Err", kind |-> kind, msg |-> msg]

Has(entries, key) == \E i \in 1..Len(entries) : entries[i].key = key

Get(entries, key) == entries[CHOOSE i \in 1..Len(entries) : entries[i].key = key].value

InvalidType(value, expected) ==
    Err("parse", "invalid type: " \o value.t \o ", expected " \o expected)

ForKey(r, key) ==
    IF r.tag = "Err" THEN Err(r.kind, r.msg \o " for key '" \o key \o "'") ELSE r

\* serde's message; the parser quotes the field name in backquotes, written '
\* here, since a TLA+ string holds no backquote
MissingField(key) == Err("parse", "missing field '" \o key \o "'")

\* the place the parser gives for an error of the document as a whole (the
\* place of an error in one value depends on the layout of the text, which
\* is not modelled)
AtDocument(r) == Err(r.kind, r.msg \o " at line 1 column 1")

(***************************************************************************)
(* The field types of ConfigFile (file.rs) as serde deserializes them      *)
(***************************************************************************)
IpLiterals == {"192.168.0.1", "127.0.0.1", "::1"}

IpAddr_deserialize(value) ==
    IF value.t # "string" THEN InvalidType(value, "IP address")
    ELSE IF value.str \in IpLiterals THEN Ok(value.str)
    ELSE Err("parse", "invalid IP address syntax")

u16_deserialize(value) ==
    IF value.t # "integer" THEN InvalidType(value, "u16")
    ELSE IF value.int >= 0 /\ value.int <= 65535 THEN Ok(value.int)
    ELSE Err("parse", "invalid value: integer '" \o ToString(value.int) \o "', expected u16")

bool_deserialize(value) ==
    IF value.t # "boolean" THEN InvalidType(value, "a boolean") ELSE Ok(value.bool)

PathBuf_deserialize(value) ==
    IF value.t # "string" THEN InvalidType(value, "path string") ELSE Ok(value.str)

PrivateKeyAlgorithm_deserialize(value) ==
    IF value.t # "string" THEN InvalidType(value, "string or map")
    ELSE IF value.str = "rsa" THEN Ok("Rsa")
    ELSE IF value.str = "pkcs8" THEN Ok("Pkcs8")
    ELSE Err("parse", "unknown variant '" \o value.str \o "', expected 'rsa' or 'pkcs8'")

\* a derived struct visitor: the entries are read in document order and the
\* first value that fails to deserialize ends it; unknown keys are skipped
FirstFailure(results) ==
    LET bad == {i \in 1..Len(results) : results[i].tag = "Err"} IN
    IF bad = {} THEN None
    ELSE Some(results[CHOOSE i \in bad : \A j \in bad : i <= j])

TlsField_deserialize(e) ==
    CASE e.key = "cert"          -> ForKey(PathBuf_deserialize(e.value), e.key)
      [] e.key = "key"           -> ForKey(PathBuf_deserialize(e.value), e.key)
      [] e.key = "key_algorithm" -> ForKey(PrivateKeyAlgorithm_deserialize(e.value), e.key)
      [] OTHER                   -> Ok(e.value)

TlsConfigFile_deserialize(value) ==
    IF value.t # "table" THEN InvalidType(value, "struct TlsConfigFile")
    ELSE LET entries == value.table
             failed  == FirstFailure([i \in 1..Len(entries) |-> TlsField_deserialize(entries[i])])
         IN  IF failed # None THEN failed[1]
             ELSE IF ~Has(entries, "cert") THEN MissingField("cert")
             ELSE IF ~Has(entries, "key") THEN MissingField("key")
             ELSE IF ~Has(entries, "key_algorithm") THEN MissingField("key_algorithm")
             ELSE Ok([cert          |-> Get(entries, "cert").str,
                      key           |-> Get(entries, "key").str,
                      key_algorithm |-> PrivateKeyAlgorithm_deserialize(
                                            Get(entries, "key_algorithm")).val])

ConfigField_deserialize(e) ==
    CASE e.key = "host"     -> ForKey(IpAddr_deserialize(e.value), e.key)
      [] e.key = "port"     -> ForKey(u16_deserialize(e.value), e.key)
      [] e.key = "verbose"  -> ForKey(bool_deserialize(e.value), e.key)
      [] e.key = "root_dir" -> ForKey(PathBuf_deserialize(e.value), e.key)
      [] e.key = "tls"      -> ForKey(TlsConfigFile_deserialize(e.value), e.key)
      [] OTHER              -> Ok(e.value)

RequiredField(entries, key) ==
    ConfigField_deserialize(Entry(key, Get(entries, key))).val

OptionalField(entries, key) ==
    IF Has(entries, key) THEN Some(RequiredField(entries, key)) ELSE None

ConfigFile_deserialize_root_dir_required(entries) ==
    LET failed == FirstFailure([i \in 1..Len(entries) |-> ConfigField_deserialize(entries[i])])
    IN  IF failed # None THEN failed[1]
        ELSE IF ~Has(entries, "host") THEN AtDocument(MissingField("host"))
        ELSE IF ~Has(entries, "port") THEN AtDocument(MissingField("port"))
        ELSE IF ~Has(entries, "verbose") THEN AtDocument(MissingField("verbose"))
        ELSE IF ~Has(entries, "root_dir") THEN AtDocument(MissingField("root_dir"))
        ELSE Ok([host     |-> RequiredField(entries, "host"),
                 port     |-> RequiredField(entries, "port"),
                 verbose  |-> RequiredField(entries, "verbose"),
                 root_dir |-> OptionalField(entries, "root_dir"),
                 tls      |-> OptionalField(entries, "tls")])

\* #[derive(Deserialize)] on ConfigFile: host, port and verbose are required,
\* the Option fields root_dir and tls default to None when their key is absent
ConfigFile_deserialize(entries) ==
    LET failed == FirstFailure([i \in 1..Len(entries) |-> ConfigField_deserialize(entries[i])])
    IN  IF failed # None THEN failed[1]
        ELSE IF ~Has(entries, "host") THEN AtDocument(MissingField("host"))
        ELSE IF ~Has(entries, "port") THEN AtDocument(MissingField("port"))
        ELSE IF ~Has(entries, "verbose") THEN AtDocument(MissingField("verbose"))
        ELSE Ok([host     |-> RequiredField(entries, "host"),
                 port     |-> RequiredField(entries, "port"),
                 verbose  |-> RequiredField(entries, "verbose"),
                 root_dir |-> OptionalField(entries, "root_dir"),
                 tls      |-> OptionalField(entries, "tls")])

\* toml::from_str::<ConfigFile>
toml_from_str(doc) ==
    IF ~doc.wellformed
    THEN Err("parse", "expected an equals, found eof at line 1 column 5")
    ELSE ConfigFile_deserialize(doc.entries)

(***************************************************************************)
(* ConfigFile::parse_toml and ConfigFile::from_file (file.rs)              *)
(***************************************************************************)
parse_toml_bare_message(doc) ==
    LET r == toml_from_str(doc) IN
    IF r.tag = "Ok" THEN Ok(r.val) ELSE Err("parse", r.msg)

parse_toml(doc) ==
    LET r == toml_from_str(doc) IN
    IF r.tag = "Ok"
    THEN Ok(r.val)
    ELSE Err("parse", "Failed to parse config from file. " \o r.msg)

\* a file: unreadable (missing, denied, nonutf8) or text holding a document
File(kind, text) == [kind |-> kind, text |-> text]

fs_read_to_string(files, file_path) ==
    LET f == files[file_path] IN
    CASE f.kind = "text"    -> Ok(f.text)
      [] f.kind = "missing" -> Err("io", "No such file or directory (os error 2)")
      [] f.kind = "denied"  -> Err("io", "Permission denied (os error 13)")
      [] f.kind = "nonutf8" -> Err("io", "stream did not contain valid UTF-8")

ReadStep(file_path) == [op |-> "read_to_string", arg |-> file_path]

ParseStep(text) == [op |-> "parse_toml", arg |-> text]

from_file_with_fallback(path, files) ==
    LET file_path == IF path # None THEN path[1] ELSE "server.toml"
        file      == fs_read_to_string(files, file_path)
        fallback  == fs_read_to_string(files, "server.toml")
    IN  IF file.tag = "Ok"
        THEN [result |-> parse_toml(file.val),
              trace  |-> <<ReadStep(file_path), ParseStep(file.val)>>]
        ELSE IF fallback.tag = "Ok"
        THEN [result |-> parse_toml(fallback.val),
              trace  |-> <<ReadStep(file_path), ParseStep(fallback.val)>>]
        ELSE [result |-> file, trace |-> <<ReadStep(file_path)>>]

\* the outcome, and the calls from_file made to reach it
from_file(path, files) ==
    LET file_path == IF path # None THEN path[1] ELSE "server.toml"
        file      == fs_read_to_string(files, file_path)
    IN  IF file.tag = "Err"
        THEN [result |-> file, trace |-> <<ReadStep(file_path)>>]
        ELSE [result |-> parse_toml(file.val),
              trace  |-> <<ReadStep(file_path), ParseStep(file.val)>>]

(***************************************************************************)
(* Documents and files the loader is run on                                *)
(***************************************************************************)
TlsTable(algorithm) ==
    TomlTable(<<Entry("cert", TomlString("cert_123.pem")),
                Entry("key", TomlString("key_123.pem")),
                Entry("key_algorithm", TomlString(algorithm))>>)

\* for each key, the values a document may give it
Entries ==
    {Entry("host", TomlString("192.168.0.1")), Entry("host", TomlString("localhost")),
     Entry("port", TomlInteger(7878)), Entry("port", TomlString("7878")),
     Entry("verbose", TomlBoolean(TRUE)), Entry("verbose", TomlString("yes")),
     Entry("root_dir", TomlString("~/Desktop")), Entry("root_dir", TomlInteger(5)),
     Entry("tls", TlsTable("rsa")), Entry("tls", TlsTable("pkcs8")),
     Entry("tls", TlsTable("dsa"))}

Keys == {"host", "port", "verbose", "root_dir", "tls"}

EntryLists ==
    UNION {{es \in [1..n -> Entries] : \A i, j \in 1..n : i # j => es[i].key # es[j].key} :
           n \in 0..Cardinality(Keys)}

Documents == {Malformed} \cup {Document(es) : es \in EntryLists}

MinimalDocument ==
    Document(<<Entry("host", TomlString("192.168.0.1")),
               Entry("port", TomlInteger(7878)),
               Entry("verbose", TomlBoolean(TRUE))>>)

PortOnlyDocument == Document(<<Entry("port", TomlInteger(7878))>>)

TlsRsaDocument ==
    Document(<<Entry("host", TomlString("192.168.0.1")),
               Entry("port", TomlInteger(7878)),
               Entry("verbose", TomlBoolean(TRUE)),
               Entry("root_dir", TomlString("~/Desktop")),
               Entry("tls", TlsTable("rsa"))>>)

Paths == {"server.toml", "custom.toml"}

Files ==
    {File("missing", Malformed), File("denied", Malformed), File("nonutf8", Malformed)}
    \cup {File("text", d) :
            d \in {MinimalDocument, PortOnlyDocument, TlsRsaDocument, Malformed}}

FromFile ==
    /\ loaded = None
    /\ \E path \in {None} \cup {Some(p) : p \in Paths} :
          loaded' = Some([path |-> path, outcome |-> from_file(path, fs)])
    /\ UNCHANGED <<fs, builderVars, convVars, eqVars, parseVars>>

ParseToml ==
    /\ parsed = None
    /\ parsed' = Some(parse_toml(content))
    /\ UNCHANGED <<content, builderVars, convVars, eqVars, fileVars>>

(***************************************************************************)
(* Specifications.  The builder, the conversion, the comparison and the    *)
(* loader share no state: each specification runs one of them and leaves   *)
(* the variables of the others at rest.                                    *)
(***************************************************************************)
IdleBuilder ==
    /\ builder = None
    /\ calls = << >>
    /\ built = None
    /\ preset = None

IdleConv ==
    /\ file_config = None
    /\ converted = None

IdleEq ==
    /\ operands = None
    /\ ncalls = 0
    /\ cmp = None

IdleFile ==
    /\ fs = None
    /\ loaded = None

IdleParse ==
    /\ content = None
    /\ parsed = None

InitBuilder ==
    /\ builder = Some(CorsConfig_builder)
    /\ calls = << >>
    /\ built = None
    /\ preset = None
    /\ IdleConv /\ IdleEq /\ IdleFile /\ IdleParse

SpecBuilder == InitBuilder /\ [][NextBuilder]_vars

InitConv ==
    /\ file_config \in CorsConfigFiles
    /\ converted = None
    /\ IdleBuilder /\ IdleEq /\ IdleFile /\ IdleParse

NextConv == TryFrom

SpecConv == InitConv /\ [][NextConv]_vars

InitEq ==
    /\ operands = [lhs |-> CorsConfig_builder, rhs |-> CorsConfig_builder]
    /\ ncalls = 0
    /\ cmp = None
    /\ IdleBuilder /\ IdleConv /\ IdleFile /\ IdleParse

SpecEq == InitEq /\ [][NextEq]_vars

InitFile ==
    /\ fs \in [Paths -> Files]
    /\ loaded = None
    /\ IdleBuilder /\ IdleConv /\ IdleEq /\ IdleParse

NextFile == FromFile

SpecFile == InitFile /\ [][NextFile]_vars

InitParse ==
    /\ content \in Documents
    /\ parsed = None
    /\ IdleBuilder /\ IdleConv /\ IdleEq /\ IdleFile

NextParse == ParseToml

SpecParse == InitParse /\ [][NextParse]_vars

(***************************************************************************)
(* Replaying a list of recorded calls on a fresh builder                   *)
(***************************************************************************)
ApplyCall(self, c) ==
    CASE c.setter = "allow_origin"      -> allow_origin(self, c.arg)
      [] c.setter = "allow_methods"     -> allow_methods(self, c.arg)
      [] c.setter = "allow_headers"     -> allow_headers(self, c.arg)
      [] c.setter = "allow_credentials" -> allow_credentials(self)
      [] c.setter = "max_age"           -> max_age(self, c.arg)
      [] c.setter = "expose_headers"    -> expose_headers(self, c.arg)
      [] c.setter = "request_headers"   -> request_headers(self, c.arg)
      [] c.setter = "request_method"    -> request_method(self, c.arg)

RECURSIVE ReplayCalls(_)
ReplayCalls(cs) ==
    IF Len(cs) = 0
    THEN CorsConfig_builder
    ELSE ApplyCall(ReplayCalls(SubSeq(cs, 1, Len(cs) - 1)), cs[Len(cs)])

\* positions of the last call to each distinct setter
LastCalls(log) ==
    {i \in 1..Len(log) : \A j \in (i + 1)..Len(log) : log[j].setter # log[i].setter}

\* every order in which the members of S can be listed
Orders(S) ==
    {p \in [1..Cardinality(S) -> S] :
        \A i, j \in 1..Cardinality(S) : i # j => p[i] # p[j]}

Called(setter) == \E i \in 1..Len(calls) : calls[i].setter = setter

\* the configuration under construction, or the one build() returned
Current == IF builder # None THEN builder[1].config ELSE built[1]

(***************************************************************************)
(* C1: whatever setter calls were made since builder(), the configuration  *)
(* under construction, and the one build() returns, equal the one obtained *)
(* by replaying on a fresh builder only the last call to each distinct     *)
(* setter, in every order of those calls (last write wins per field,       *)
(* different setters commute).                                             *)
(***************************************************************************)
C1_LastWriteWins ==
    LET last == LastCalls(calls) IN
    \A p \in Orders(last) :
        LET replayed == build(ReplayCalls([i \in 1..Cardinality(last) |-> calls[p[i]]])) IN
        /\ builder # None => build(builder[1]) = replayed
        /\ built # None => built[1] = replayed

\* build() returned after a setter was called twice with different
\* arguments and another setter was called as well
C1_Witness ==
    /\ built # None
    /\ Cardinality(LastCalls(calls)) = 2
    /\ \E i, j \in 1..Len(calls) :
          i < j /\ calls[i].setter = calls[j].setter /\ calls[i].arg # calls[j].arg

(***************************************************************************)
(* C4: a setter call sets its own field (to Some(argument), or to true for *)
(* allow_credentials) and leaves the other seven fields as they were; the  *)
(* configuration build() returns has allow_credentials = false unless      *)
(* allow_credentials() was called, and every other field whose setter was  *)
(* never called is absent.                                                 *)
(***************************************************************************)
C4_SetterFrame ==
    /\ [][calls' # calls =>
            LET c   == calls'[Len(calls')]
                old == builder[1].config
                new == builder'[1].config
            IN  /\ \A g \in FieldNames \ {c.setter} : new[g] = old[g]
                /\ new[c.setter] =
                      IF c.setter = "allow_credentials" THEN TRUE ELSE Some(c.arg)]_vars
    /\ [](built # None =>
            \A g \in FieldNames :
                ~Called(g) =>
                    built[1][g] = IF g = "allow_credentials" THEN FALSE ELSE None)

\* build() returned after three different setters were called
C4_Witness ==
    /\ built # None
    /\ Cardinality(LastCalls(calls)) = 3
    /\ ~Called("allow_credentials")

(***************************************************************************)
(* C5: allow_credentials is true exactly when allow_credentials() has been *)
(* called since builder(); no later call makes it false again; build()     *)
(* returns that flag.                                                      *)
(***************************************************************************)
C5_CredentialsFlag ==
    /\ [](Current.allow_credentials <=> Called("allow_credentials"))
    /\ [][Current.allow_credentials => Current'.allow_credentials]_vars

\* build() returned true after allow_credentials() and two later setter calls
C5_Witness ==
    /\ built # None
    /\ built[1].allow_credentials
    /\ Len(calls) = 3
    /\ calls[1].setter = "allow_credentials"

(***************************************************************************)
(* C6: allow_all() returns origin "*", methods GET POST PUT PATCH DELETE   *)
(* HEAD, headers Origin Content-Length Content-Type, credentials false,    *)
(* max age 43200 s with no sub-second part, the other three fields absent; *)
(* the same configuration as allow_origin, allow_methods, allow_headers    *)
(* and max_age called with those values on a fresh builder and built.      *)
(***************************************************************************)
C6_AllowAllPreset ==
    preset # None =>
        /\ preset[1].allow_origin = <<"*">>
        /\ preset[1].allow_methods = << <<"GET", "POST", "PUT", "PATCH", "DELETE", "HEAD">> >>
        /\ preset[1].allow_headers = << <<"Origin", "Content-Length", "Content-Type">> >>
        /\ preset[1].allow_credentials = FALSE
        /\ preset[1].max_age = << [secs |-> 43200, nanos |-> 0] >>
        /\ preset[1].expose_headers = << >>
        /\ preset[1].request_headers = << >>
        /\ preset[1].request_method = << >>
        /\ preset[1] =
              build(max_age(
                      allow_headers(
                        allow_methods(
                          allow_origin(CorsConfig_builder, "*"),
                          <<"GET", "POST", "PUT", "PATCH", "DELETE", "HEAD">>),
                        <<"Origin", "Content-Length", "Content-Type">>),
                      Duration_from_secs(43200)))

\* allow_all() has returned
C6_Witness == preset # None /\ DOMAIN preset[1] = FieldNames


\* the duration is the very number of seconds the f64 holds
SameSeconds(duration, x) ==
    /\ x.cls = "finite"
    /\ x.rem = "exact"
    /\ ~x.neg \/ IsZero(x)
    /\ duration = [secs |-> x.secs, nanos |-> x.nanos]

(***************************************************************************)
(* C2: for every CorsConfigFile, try_from returns a CorsConfig with        *)
(* allow_credentials equal to the source flag, every optional field absent *)
(* when absent in the source and present with the same value when present, *)
(* and max_age the duration equal to the source's seconds.                 *)
(***************************************************************************)
C2_FieldForField ==
    converted # None =>
        /\ converted[1].tag = "Ok"
        /\ LET c == converted[1].val IN
           /\ c.allow_credentials = file_config.allow_credentials
           /\ c.allow_headers = file_config.allow_headers
           /\ c.allow_methods = file_config.allow_methods
           /\ c.allow_origin = file_config.allow_origin
           /\ c.expose_headers = file_config.expose_headers
           /\ c.request_headers = file_config.request_headers
           /\ c.request_method = file_config.request_method
           /\ Len(c.max_age) = Len(file_config.max_age)
           /\ file_config.max_age # None => SameSeconds(c.max_age[1], file_config.max_age[1])

(***************************************************************************)
(* C3: try_from never rejects its input: for every CorsConfigFile it       *)
(* completes with a success value, never an error and never an abort.      *)
(***************************************************************************)
C3_NeverRejects == converted # None => converted[1].tag = "Ok"

\* the same strings, each as often, in some order
SameElements(a, b) ==
    /\ Len(a) = Len(b)
    /\ \A x \in {a[i] : i \in 1..Len(a)} :
          Cardinality({i \in 1..Len(a) : a[i] = x}) = Cardinality({i \in 1..Len(b) : b[i] = x})

SeqFields == {"allow_headers", "allow_methods", "expose_headers", "request_headers"}

(***************************************************************************)
(* C10: lhs == rhs is true exactly when all eight fields of the two        *)
(* configurations are the same; it is false when a sequence field holds    *)
(* the same elements in a different order on the two sides, and false when *)
(* a sequence field is absent on one side and present but empty on the     *)
(* other.                                                                  *)
(***************************************************************************)
C10_Equality ==
    cmp # None =>
        LET l == build(operands.lhs)
            r == build(operands.rhs)
        IN  /\ cmp[1] <=> \A f \in FieldNames : l[f] = r[f]
            /\ \A f \in SeqFields :
                  /\ ( /\ l[f] # None
                       /\ r[f] # None
                       /\ SameElements(l[f][1], r[f][1])
                       /\ l[f][1] # r[f][1] ) => ~cmp[1]
                  /\ (l[f] = None /\ r[f] = Some(<< >>)) => ~cmp[1]
                  /\ (l[f] = Some(<< >>) /\ r[f] = None) => ~cmp[1]

\* two configurations that differ only in the order of allow_headers were compared
C10_Witness ==
    /\ cmp # None
    /\ operands.lhs.config.allow_headers # None
    /\ operands.rhs.config.allow_headers # None
    /\ operands.lhs.config.allow_headers # operands.rhs.config.allow_headers
    /\ SameElements(operands.lhs.config.allow_headers[1], operands.rhs.config.allow_headers[1])
    /\ cmp[1] = FALSE

(***************************************************************************)
(* C7: from_file reads the given path, or server.toml when none is given,  *)
(* once; when the read fails it returns the I/O error, parse_toml is not   *)
(* called and nothing is substituted; when the read succeeds parse_toml is *)
(* called once on the text read and its result is from_file's result.      *)
(***************************************************************************)
C7_ReadThenParse ==
    loaded # None =>
        LET path == loaded[1].path
            out  == loaded[1].outcome
            p    == IF path = None THEN "server.toml" ELSE path[1]
            f    == fs[p]
        IN  /\ Len(out.trace) \in {1, 2}
            /\ out.trace[1] = [op |-> "read_to_string", arg |-> p]
            /\ f.kind # "text" =>
                  /\ Len(out.trace) = 1
                  /\ out.result.tag = "Err"
                  /\ out.result.kind = "io"
                  /\ out.result.msg =
                        CASE f.kind = "missing" -> "No such file or directory (os error 2)"
                          [] f.kind = "denied"  -> "Permission denied (os error 13)"
                          [] f.kind = "nonutf8" -> "stream did not contain valid UTF-8"
            /\ f.kind = "text" =>
                  /\ Len(out.trace) = 2
                  /\ out.trace[2] = [op |-> "parse_toml", arg |-> f.text]
                  /\ out.result = parse_toml(f.text)

\* from_file(None) failed on a missing server.toml although another file
\* holds a valid configuration
C7_Witness ==
    /\ loaded # None
    /\ loaded[1].path = None
    /\ fs["server.toml"].kind = "missing"
    /\ fs["custom.toml"] = File("text", MinimalDocument)
    /\ loaded[1].outcome.result.tag = "Err"

(***************************************************************************)
(* What the configuration file format asks of each key's value             *)
(***************************************************************************)
RequiredKeys == {"host", "port", "verbose"}

WellTyped(e) ==
    CASE e.key = "host"     -> e.value.t = "string" /\ e.value.str \in IpLiterals
      [] e.key = "port"     -> e.value.t = "integer" /\ e.value.int \in 0..65535
      [] e.key = "verbose"  -> e.value.t = "boolean"
      [] e.key = "root_dir" -> e.value.t = "string"
      [] e.key = "tls"      ->
            /\ e.value.t = "table"
            /\ \A k \in {"cert", "key", "key_algorithm"} :
                  Has(e.value.table, k) /\ Get(e.value.table, k).t = "string"
            /\ Get(e.value.table, "key_algorithm").str \in {"rsa", "pkcs8"}

PresentWellTyped(doc, key) ==
    Has(doc.entries, key) /\ WellTyped(Entry(key, Get(doc.entries, key)))

AllPresentWellTyped(doc) ==
    \A i \in 1..Len(doc.entries) : WellTyped(doc.entries[i])

MissingRequired(doc) == {k \in RequiredKeys : ~Has(doc.entries, k)}

RequiredBroken(doc) ==
    doc.wellformed /\ \E k \in RequiredKeys : ~PresentWellTyped(doc, k)

ErrorPrefix == "Failed to parse config from file. "

MissingFieldMessage(key) == "missing field '" \o key \o "' at line 1 column 1"

FirstMissing(doc) ==
    IF ~Has(doc.entries, "host") THEN "host"
    ELSE IF ~Has(doc.entries, "port") THEN "port"
    ELSE "verbose"

(***************************************************************************)
(* C8 as stated: parse_toml fails for every document in which host, port   *)
(* or verbose is missing or ill-typed, the message is the fixed prefix     *)
(* followed by the parser's message, and that message names the missing    *)
(* field (missing field 'host' for a document missing host).               *)
(***************************************************************************)
C8_NamesMissingField ==
    (parsed # None /\ RequiredBroken(content)) =>
        /\ parsed[1].tag = "Err"
        /\ parsed[1].msg = ErrorPrefix \o toml_from_str(content).msg
        /\ MissingRequired(content) # {} =>
              \E k \in MissingRequired(content) :
                  parsed[1].msg = ErrorPrefix \o MissingFieldMessage(k)
        /\ ~Has(content.entries, "host") =>
              parsed[1].msg = ErrorPrefix \o MissingFieldMessage("host")

(***************************************************************************)
(* C8 amended: parse_toml fails for every document in which host, port or  *)
(* verbose is missing or ill-typed, and the message is the fixed prefix    *)
(* followed by the parser's message; when every field present is           *)
(* well-typed that message names the first missing required field in the   *)
(* order host, port, verbose; when a present field is ill-typed it is that *)
(* field's error and names no missing field.                               *)
(***************************************************************************)
C8_ParseFailure ==
    (parsed # None /\ RequiredBroken(content)) =>
        /\ parsed[1].tag = "Err"
        /\ parsed[1].msg = ErrorPrefix \o toml_from_str(content).msg
        /\ AllPresentWellTyped(content) =>
              parsed[1].msg = ErrorPrefix \o MissingFieldMessage(FirstMissing(content))
        /\ ~AllPresentWellTyped(content) =>
              \A k \in RequiredKeys : parsed[1].msg # ErrorPrefix \o MissingFieldMessage(k)

\* the document holding only port = 7878 was parsed and the error names host
C8_Witness ==
    /\ parsed # None
    /\ content = PortOnlyDocument
    /\ parsed[1].tag = "Err"
    /\ parsed[1].msg = "Failed to parse config from file. missing field 'host' at line 1 column 1"

ExpectedOptional(doc, key) ==
    IF ~Has(doc.entries, key) THEN None
    ELSE IF key = "root_dir" THEN Some(Get(doc.entries, key).str)
    ELSE LET t == Get(doc.entries, key).table IN
         Some([cert          |-> Get(t, "cert").str,
               key           |-> Get(t, "key").str,
               key_algorithm |-> IF Get(t, "key_algorithm").str = "rsa"
                                 THEN "Rsa" ELSE "Pkcs8"])

(***************************************************************************)
(* C9 as stated: parse_toml succeeds for every document whose host, port   *)
(* and verbose are well-typed, whatever it holds for root_dir and tls:     *)
(* absent ones are unset in the result, present ones appear with the value *)
(* given.                                                                  *)
(***************************************************************************)
C9_OptionalNeverAnError ==
    ( /\ parsed # None
      /\ content.wellformed
      /\ \A k \in RequiredKeys : PresentWellTyped(content, k) ) =>
        /\ parsed[1].tag = "Ok"
        /\ parsed[1].val.root_dir = ExpectedOptional(content, "root_dir")
        /\ parsed[1].val.tls = ExpectedOptional(content, "tls")

(***************************************************************************)
(* C9 amended: parse_toml succeeds for every document whose host, port and *)
(* verbose are well-typed and whose root_dir and tls, when present, are    *)
(* well-typed too: an absent root_dir or tls is unset in the result, a     *)
(* present one appears with the value given (key_algorithm rsa or pkcs8    *)
(* as the variant Rsa or Pkcs8), and host, port and verbose are the values *)
(* given.                                                                  *)
(***************************************************************************)
C9_ParseSuccess ==
    ( /\ parsed # None
      /\ content.wellformed
      /\ \A k \in RequiredKeys : PresentWellTyped(content, k)
      /\ AllPresentWellTyped(content) ) =>
        /\ parsed[1].tag = "Ok"
        /\ parsed[1].val.host = Get(content.entries, "host").str
        /\ parsed[1].val.port = Get(content.entries, "port").int
        /\ parsed[1].val.verbose = Get(content.entries, "verbose").bool
        /\ parsed[1].val.root_dir = ExpectedOptional(content, "root_dir")
        /\ parsed[1].val.tls = ExpectedOptional(content, "tls")

\* a document with a [tls] table using pkcs8 and no root_dir was parsed
C9_Witness ==
    /\ parsed # None
    /\ parsed[1].tag = "Ok"
    /\ parsed[1].val.root_dir = None
    /\ parsed[1].val.tls # None
    /\ parsed[1].val.tls[1].key_algorithm = "Pkcs8"

=============================================================================
